---- MODULE Spec2Model ----
(***************************************************************************)
(* Sharded ledger of the QFC repository: Blockchain (the ledger), Shard,   *)
(* Block, Transaction, CrossShardCoordinator, and the two collaborators    *)
(* that write the shared asset table (NFTMarketplace, QFCOnRamper).        *)
(*                                                                         *)
(* Conventions of the model                                                *)
(*  - An address is a sequence of one-character strings, so that the       *)
(*    code's address[0] is Head(address).                                  *)
(*  - Amounts and balances are whole QFC; transfer amounts are multiples   *)
(*    of 100 so that the 1% fee (0.01 * amount) is a whole number.         *)
(*  - A digest (sha256 of a canonical JSON dump) is modelled as the tuple  *)
(*    of the fields that are dumped: equal digests iff equal fields.       *)
(*  - time.time() is a logical clock that advances at each construction    *)
(*    of a Transaction.                                                    *)
(*  - A call is one atomic action in Spec; `call` names the last call and  *)
(*    `ret` is what its caller observed ("true", "false", "none", or       *)
(*    "raised" when the call ended in an uncaught exception).              *)
(***************************************************************************)
EXTENDS Integers, Sequences, FiniteSets, TLC

VARIABLES
    balances,       \* Blockchain.assets["QFC"]["balances"]: dict address -> balance
    shards,         \* Blockchain.shards: shard_id -> [chain, pending_transactions]
    nfts,           \* NFTMarketplace.nfts: dict token_id -> NFT record
    clock,          \* time.time()
    buys,           \* number of completed on-ramp purchases
    appends,        \* number of direct Shard.add_block calls
    sales,          \* number of buy_nft calls that moved funds
    call,           \* the last call: the name of the operation
    ret,            \* what the caller of the last call observed
    pc,             \* ConcSpec: position of each thread inside add_transaction
    loc,            \* ConcSpec: locals of each thread inside add_transaction
    initial_difficulty, \* GreenProofOfWork.__init__: the difficulty it was given
    difficulty,     \* GreenProofOfWork.difficulty
    block_times,    \* GreenProofOfWork.block_times
    carbon_credits, \* GreenProofOfWork.carbon_credits: dict address -> credits
    mined,          \* what the last GreenProofOfWork.mine call was given and returned
    mines,          \* number of completed GreenProofOfWork.mine calls
    seen,           \* the kinds of mining durations seen so far
    probe,          \* the last call of a pure function: its arguments and result
    built,          \* the candidates Shard.create_block has returned, in order
    cpc,            \* position of each thread inside Shard.create_block
    cblock,         \* the new_block local of each thread inside Shard.create_block
    market_transactions, \* CarbonCreditMarket.transactions
    order_book      \* DecentralizedExchange.order_book: token_id -> [buy, sell]

powVars ==
    <<initial_difficulty, difficulty, block_times, carbon_credits, mined,
      mines, seen>>

auxVars ==
    <<probe, built, cpc, cblock, market_transactions, order_book>>

vars ==
    <<balances, shards, nfts, clock, buys, appends, sales, call, ret, pc, loc,
      powVars, auxVars>>

----------------------------------------------------------------------------
(* Bounds of the model *)

NumShards == 2
MaxClock == 2
MaxBuys == 2
MaxAppends == 2
MaxSales == 2
MaxHalvings == 8
\* the longest zero prefix a modelled digest can have
MaxZeros == 8
\* GreenProofOfWork(adjustment_interval=...), default 10
ADJUSTMENT_INTERVAL == 3
MaxMines == 2 * ADJUSTMENT_INTERVAL + 1
\* CreditSpec: mine calls per behaviour
MaxCreditMines == 2
\* CarbonCreditMarket.transactions holds at most this many
MaxTrades == 2
\* the orders resting in one token's book
MaxOrders == 3

(* Program constants *)

TOTAL_SUPPLY == 1000000000
FEE_PERCENT == 1
INITIAL_DIFFICULTY == 4
TARGET_BLOCK_TIME == 60
BLOCK_REWARD == 50
REWARD_HALVING_INTERVAL == 210000
BASE_CREDIT == 10
CREDIT_PRICE == 10

----------------------------------------------------------------------------
(* Addresses *)

A0 == <<"0", "a">>
A1 == <<"1", "b">>
NETWORK == <<"N", "e", "t", "w", "o", "r", "k">>
Addresses == {A0, A1, NETWORK}
\* the addresses that own a key pair
Keys == {A0, A1}

HexDigit ==
    [c \in {"0", "1", "2", "3", "4", "5", "6", "7", "8", "9",
            "a", "b", "c", "d", "e", "f"} |->
        CASE c = "0" -> 0 [] c = "1" -> 1 [] c = "2" -> 2 [] c = "3" -> 3
          [] c = "4" -> 4 [] c = "5" -> 5 [] c = "6" -> 6 [] c = "7" -> 7
          [] c = "8" -> 8 [] c = "9" -> 9 [] c = "a" -> 10 [] c = "b" -> 11
          [] c = "c" -> 12 [] c = "d" -> 13 [] c = "e" -> 14 [] c = "f" -> 15]

\* int(address[0], 16) raises (IndexError, ValueError) for these addresses
RoutingRaises(address) ==
    \/ Len(address) = 0
    \/ Head(address) \notin DOMAIN HexDigit

\* CrossShardCoordinator.get_shard_for_address, where it does not raise
get_shard_for_address(address) == HexDigit[Head(address)] % NumShards

----------------------------------------------------------------------------
(* Transaction *)

NoSignature == <<>>

Transaction(sender, recipient, amount, now) ==
    [sender |-> sender, recipient |-> recipient, amount |-> amount,
     asset |-> "QFC", timestamp |-> now,
     fee |-> (FEE_PERCENT * amount) \div 100,
     signature |-> NoSignature]

calculate_total_cost(tx) == tx.amount + tx.fee

to_dict(tx) ==
    <<tx.sender, tx.recipient, tx.amount, tx.asset, tx.timestamp, tx.fee,
      tx.signature>>

\* Transaction.calculate_hash: digest of to_dict(), the signature included
calculate_hash(tx) == to_dict(tx)

\* Transaction.sign_transaction: an RSA-PSS signature by `key` over the digest
sign_transaction(tx, key) ==
    [tx EXCEPT !.signature = <<key, calculate_hash(tx)>>]

\* Transaction.verify_signature, where it returns
verify_signature(tx, public_key) ==
    /\ Len(tx.signature) = 2
    /\ tx.signature[1] = public_key
    /\ tx.signature[2] = calculate_hash(tx)

\* A signature text that is not hexadecimal
MALFORMED_SIGNATURE == <<"zz">>

\* Transaction.verify_signature, as the caller observes it: bytes.fromhex
\* (line 50) raises ValueError on a non-hex text, and only InvalidSignature
\* is caught (line 62)
verify_signature_outcome(tx, public_key) ==
    IF tx.signature = MALFORMED_SIGNATURE THEN "raised"
    ELSE IF verify_signature(tx, public_key) THEN "true" ELSE "false"

----------------------------------------------------------------------------
(* Block and Shard *)

GENESIS_PREVIOUS_HASH == <<"0">>

\* Block.calculate_hash
BlockCalculateHash(index, transactions, previous_hash, nonce, timestamp) ==
    <<index, transactions, previous_hash, nonce, timestamp>>

\* Block.__init__: nonce defaults to 0, the hash is computed at once
Block(index, transactions, previous_hash, now) ==
    [index |-> index, transactions |-> transactions,
     previous_hash |-> previous_hash, nonce |-> 0, timestamp |-> now,
     hash |-> BlockCalculateHash(index, transactions, previous_hash, 0, now)]

\* Shard.__init__
Shard(shard_id) ==
    [chain |-> <<Block(0, <<>>, GENESIS_PREVIOUS_HASH, 0)>>,
     pending_transactions |-> <<>>]

ShardIds == 0 .. (NumShards - 1)

get_latest_block(shard) == shard.chain[Len(shard.chain)]

\* Shard.add_transaction
ShardAddTransaction(sh, shard_id, tx) ==
    [sh EXCEPT ![shard_id].pending_transactions = Append(@, tx)]

\* Shard.add_block
ShardAddBlock(sh, shard_id, block) ==
    [sh EXCEPT ![shard_id].chain = Append(@, block)]

----------------------------------------------------------------------------
(* Ledger: the asset table *)

get_qfc_balance(bal, address) ==
    IF address \in DOMAIN bal THEN bal[address] ELSE 0

\* dict item assignment: bal[address] = value
SetItem(bal, address, value) ==
    [a \in (DOMAIN bal) \cup {address} |->
        IF a = address THEN value ELSE bal[a]]

\* Blockchain.verify_transaction
verify_transaction(bal, tx) ==
    /\ ~(tx.amount <= 0)
    /\ ~(get_qfc_balance(bal, tx.sender) < calculate_total_cost(tx))

\* Blockchain.update_qfc_balances: both balances are read first, then written
update_qfc_balances(bal, tx) ==
    LET sender_balance == get_qfc_balance(bal, tx.sender)
        recipient_balance == get_qfc_balance(bal, tx.recipient)
        total_cost == calculate_total_cost(tx)
    IN IF sender_balance >= total_cost
       THEN SetItem(SetItem(bal, tx.sender, sender_balance - total_cost),
                    tx.recipient, recipient_balance + tx.amount)
       ELSE bal

----------------------------------------------------------------------------
(* Calls *)

NoTx == Transaction(<<>>, <<>>, 0, 0)

Threads == {1, 2}
NoLocals ==
    [tx |-> NoTx, sender_balance |-> 0, recipient_balance |-> 0,
     result |-> "none", base |-> <<>>]

NoProbe == [op |-> "none"]

\* GreenProofOfWork.__init__, after the difficulty was set
PowInit ==
    /\ difficulty = initial_difficulty
    /\ block_times = <<>>
    /\ carbon_credits = <<>>
    /\ mined = <<>>
    /\ mines = 0
    /\ seen = {}

AuxInit ==
    /\ probe = NoProbe
    /\ built = <<>>
    /\ cpc = [t \in Threads |-> "idle"]
    /\ cblock = [t \in Threads |-> <<>>]
    /\ market_transactions = <<>>
    /\ order_book = <<>>

\* Blockchain.__init__
LedgerInit ==
    /\ balances = <<>>
    /\ shards = [i \in ShardIds |-> Shard(i)]
    /\ nfts = <<>>
    /\ clock = 1
    /\ buys = 0
    /\ appends = 0
    /\ sales = 0
    /\ call = "none"
    /\ ret = "none"
    /\ pc = [t \in Threads |-> "idle"]
    /\ loc = [t \in Threads |-> NoLocals]

Init ==
    /\ LedgerInit
    /\ initial_difficulty = INITIAL_DIFFICULTY
    /\ PowInit
    /\ AuxInit

\* QFCOnRamper.buy_qfc: the exchange rate and the payment gateway are
\* external; qfc_amount is fiat_amount / rate, paid tells whether the
\* gateway answered 200
BuyAmounts == {1010, 600000000}

BuyQfc(user, qfc_amount, paid) ==
    /\ buys < MaxBuys
    /\ call' = "buy_qfc"
    /\ IF paid
       THEN /\ balances' = SetItem(balances, user,
                                   get_qfc_balance(balances, user) + qfc_amount)
            /\ buys' = buys + 1
            /\ ret' = "true"
       ELSE /\ UNCHANGED <<balances, buys>>
            /\ ret' = "false"
    /\ UNCHANGED <<shards, nfts, clock, appends, sales, pc, loc,
                 powVars, auxVars>>

\* The transactions a caller can submit: unsigned, or signed with a key
\* that is not the sender's
TxAmounts == {0, 1000}
SigKinds == {"unsigned", "forged"}
OtherKey(address) == IF address = A1 THEN A0 ELSE A1
Signed(tx, kind) ==
    CASE kind = "unsigned" -> tx
      [] kind = "forged" -> sign_transaction(tx, OtherKey(tx.sender))

\* Blockchain.add_transaction: what the caller observes.  The routing of
\* line 26 raises before anything is written.
add_transaction_result(bal, tx) ==
    IF verify_transaction(bal, tx)
    THEN IF RoutingRaises(tx.sender) THEN "raised" ELSE "true"
    ELSE "false"

\* Blockchain.add_transaction: the asset table it leaves
add_transaction_balances(bal, tx) ==
    IF add_transaction_result(bal, tx) = "true"
    THEN update_qfc_balances(bal, tx)
    ELSE bal

\* Blockchain.add_transaction: the shards it leaves
add_transaction_shards(sh, bal, tx) ==
    IF add_transaction_result(bal, tx) = "true"
    THEN ShardAddTransaction(sh, get_shard_for_address(tx.sender), tx)
    ELSE sh

AddTransactionEffect(tx) ==
    /\ ret' = add_transaction_result(balances, tx)
    /\ shards' = add_transaction_shards(shards, balances, tx)
    /\ balances' = add_transaction_balances(balances, tx)

AddTransaction(sender, recipient, amount, kind) ==
    /\ clock <= MaxClock
    /\ LET tx == Signed(Transaction(sender, recipient, amount, clock), kind)
       IN AddTransactionEffect(tx)
    /\ call' = "add_transaction"
    /\ clock' = clock + 1
    /\ UNCHANGED <<nfts, buys, appends, sales, pc, loc,
                 powVars, auxVars>>

\* CrossShardCoordinator.prepare_transaction
prepare_transaction(tx, source_shard, destination_shard) == TRUE

\* CrossShardCoordinator.commit_transaction
commit_transaction(sh, tx, source_shard, destination_shard) ==
    ShardAddTransaction(ShardAddTransaction(sh, source_shard, tx),
                        destination_shard, tx)

\* CrossShardCoordinator.abort_transaction
abort_transaction(sh, tx, source_shard, destination_shard) == sh

\* CrossShardCoordinator.initiate_cross_shard_transaction
InitiateEffect(tx) ==
    IF RoutingRaises(tx.sender) \/ RoutingRaises(tx.recipient)
    THEN /\ ret' = "raised"
         /\ UNCHANGED shards
    ELSE LET source_shard == get_shard_for_address(tx.sender)
             destination_shard == get_shard_for_address(tx.recipient)
         IN IF source_shard = destination_shard
            THEN /\ shards' = ShardAddTransaction(shards, source_shard, tx)
                 /\ ret' = "none"
            ELSE IF prepare_transaction(tx, source_shard, destination_shard)
                 THEN /\ shards' = commit_transaction(
                                       shards, tx, source_shard, destination_shard)
                      /\ ret' = "true"
                 ELSE /\ shards' = abort_transaction(
                                       shards, tx, source_shard, destination_shard)
                      /\ ret' = "false"

InitiateCrossShardTransaction(sender, recipient, amount) ==
    /\ clock <= MaxClock
    /\ InitiateEffect(Transaction(sender, recipient, amount, clock))
    /\ call' = "initiate_cross_shard_transaction"
    /\ clock' = clock + 1
    /\ UNCHANGED <<balances, nfts, buys, appends, sales, pc, loc,
                 powVars, auxVars>>

create_block_reversed(shard, now) ==
    Block(Len(shard.chain),
          [i \in 1 .. Len(shard.pending_transactions) |->
              to_dict(shard.pending_transactions[
                          Len(shard.pending_transactions) + 1 - i])],
          get_latest_block(shard).hash, now)

\* Shard.create_block, where the pending queue is not empty: the candidate
create_block(shard, now) ==
    Block(Len(shard.chain),
          [i \in 1 .. Len(shard.pending_transactions) |->
              to_dict(shard.pending_transactions[i])],
          get_latest_block(shard).hash, now)

\* Shard.add_transaction, called on the shard with a transaction the caller
\* has just constructed
ShardEnqueue(shard_id, sender, recipient, amount) ==
    /\ clock <= MaxClock
    /\ shards' = ShardAddTransaction(shards, shard_id,
                                     Transaction(sender, recipient, amount, clock))
    /\ clock' = clock + 1
    /\ call' = "shard_add_transaction"
    /\ ret' = "none"
    /\ UNCHANGED <<balances, nfts, buys, appends, sales, pc, loc, powVars,
                   auxVars>>

\* Shard.create_block, run without interruption.  The candidate it returns
\* is recorded in `built`.
CreateBlock(shard_id) ==
    /\ call' = "create_block"
    /\ IF Len(shards[shard_id].pending_transactions) = 0
       THEN /\ ret' = "none"
            /\ UNCHANGED <<shards, built>>
       ELSE /\ built' = Append(built, [shard |-> shard_id,
                                       block |-> create_block(shards[shard_id],
                                                              clock)])
            /\ shards' = [shards EXCEPT ![shard_id].pending_transactions = <<>>]
            /\ ret' = "block"
    /\ UNCHANGED <<balances, nfts, clock, buys, appends, sales, pc, loc,
                   powVars, probe, cpc, cblock, market_transactions, order_book>>

\* Shard.add_block with the candidate create_block returned last
AppendCandidate ==
    /\ appends < MaxAppends
    /\ Len(built) > 0
    /\ shards' = ShardAddBlock(shards, built[Len(built)].shard,
                               built[Len(built)].block)
    /\ appends' = appends + 1
    /\ call' = "add_block"
    /\ ret' = "none"
    /\ UNCHANGED <<balances, nfts, clock, buys, sales, pc, loc, powVars,
                   auxVars>>

\* Shard.add_block with a candidate some create_block call returned, each
\* candidate at most once (Blockchain.mine_block, line 50, appends the
\* candidate its own create_block call returned)
AppendBuilt(k) ==
    /\ appends < MaxAppends
    /\ k \in 1 .. Len(built)
    /\ \A j \in 1 .. Len(shards[built[k].shard].chain) :
           shards[built[k].shard].chain[j] # built[k].block
    /\ shards' = ShardAddBlock(shards, built[k].shard, built[k].block)
    /\ appends' = appends + 1
    /\ call' = "add_block"
    /\ ret' = "none"
    /\ UNCHANGED <<balances, nfts, clock, buys, sales, pc, loc, powVars,
                   auxVars>>

\* Shard.create_block, one step of one thread at a time, all threads on the
\* same shard.  Line 24: the emptiness test.
SharedShard == 0

CbCheck(t) ==
    /\ cpc[t] = "idle"
    /\ call' = "create_block"
    /\ IF Len(shards[SharedShard].pending_transactions) = 0
       THEN /\ ret' = "none"
            /\ UNCHANGED cpc
       ELSE /\ cpc' = [cpc EXCEPT ![t] = "build"]
            /\ UNCHANGED ret
    /\ UNCHANGED <<balances, shards, nfts, clock, buys, appends, sales, pc, loc,
                   powVars, probe, built, cblock, market_transactions, order_book>>

\* Lines 26-30: new_block is built from the queue as it is now
CbBuild(t) ==
    /\ cpc[t] = "build"
    /\ cblock' = [cblock EXCEPT ![t] = <<create_block(shards[SharedShard], clock)>>]
    /\ cpc' = [cpc EXCEPT ![t] = "clear"]
    /\ UNCHANGED <<balances, shards, nfts, clock, buys, appends, sales, call,
                   ret, pc, loc, powVars, probe, built, market_transactions, order_book>>

\* Lines 31-32: the queue is replaced by an empty list and new_block returned
CbClear(t) ==
    /\ cpc[t] = "clear"
    /\ shards' = [shards EXCEPT ![SharedShard].pending_transactions = <<>>]
    /\ built' = Append(built, [shard |-> SharedShard, block |-> cblock[t][1]])
    /\ cblock' = [cblock EXCEPT ![t] = <<>>]
    /\ cpc' = [cpc EXCEPT ![t] = "idle"]
    /\ call' = "create_block"
    /\ ret' = "block"
    /\ UNCHANGED <<balances, nfts, clock, buys, appends, sales, pc, loc,
                   powVars, probe, market_transactions, order_book>>

\* Blockchain.mine_block.  Line 44 evaluates json.dumps(new_block.to_dict()):
\* Block defines no to_dict (and the module does not import json), so the
\* call raises after create_block has emptied the pending queue; lines 46-52
\* are never reached.
MineBlock(miner_address) ==
    /\ call' = "mine_block"
    /\ IF RoutingRaises(miner_address)
       THEN /\ ret' = "raised"
            /\ UNCHANGED shards
       ELSE LET shard_id == get_shard_for_address(miner_address)
            IN IF Len(shards[shard_id].pending_transactions) = 0
               THEN /\ ret' = "none"
                    /\ UNCHANGED shards
               ELSE /\ shards' = [shards EXCEPT
                                     ![shard_id].pending_transactions = <<>>]
                    /\ ret' = "raised"
    /\ UNCHANGED <<balances, nfts, clock, buys, appends, sales, pc, loc,
                 powVars, auxVars>>

\* GreenConsensus.reward_miner, lines 27-28: the reward after current_block
\* blocks
Max(a, b) == IF a >= b THEN a ELSE b

reward_no_floor(current_block) ==
    LET halvings == current_block \div REWARD_HALVING_INTERVAL
    IN BLOCK_REWARD \div (2 ^ halvings)

reward(current_block) ==
    LET halvings == current_block \div REWARD_HALVING_INTERVAL
    IN Max(1, BLOCK_REWARD \div (2 ^ halvings))

\* GreenConsensus.reward_miner.  Line 26 reads
\* self.blockchain.get_latest_block().chain: get_latest_block returns a
\* Block, which has no attribute chain, so the call raises before the
\* reward is computed or any transaction is built.
RewardMiner(miner_address) ==
    /\ call' = "reward_miner"
    /\ ret' = "raised"
    /\ UNCHANGED <<balances, shards, nfts, clock, buys, appends, sales, pc, loc,
                   powVars, auxVars>>

----------------------------------------------------------------------------
(* GreenProofOfWork *)

RENEWABLE_ENERGY_SOURCES == {"solar", "wind", "hydro", "geothermal"}

\* award_carbon_credits: the multiplier table, in tenths
MULTIPLIER ==
    [e \in RENEWABLE_ENERGY_SOURCES |->
        CASE e = "solar" -> 12 [] e = "wind" -> 11
          [] e = "hydro" -> 10 [] e = "geothermal" -> 13]

\* json.dumps([tx.to_dict() for tx in transactions]), for Transaction objects
DumpTransactions(transactions) ==
    [i \in 1 .. Len(transactions) |-> to_dict(transactions[i])]

\* GreenProofOfWork.calculate_hash: sha256 of f"{block_data}{nonce}{energy_source}"
PowHash(block_data, nonce, energy_source) ==
    <<block_data, nonce, energy_source>>

\* The number of leading "0" characters of a digest.  sha256 is stood in
\* for by a fixed function of the hashed text: the number of times 2
\* divides a number derived from it, at most MaxZeros.
EnergySalt ==
    [e \in RENEWABLE_ENERGY_SOURCES |->
        CASE e = "solar" -> 0 [] e = "wind" -> 4
          [] e = "hydro" -> 9 [] e = "geothermal" -> 22]

RECURSIVE TwoAdic(_, _)
TwoAdic(x, limit) ==
    IF limit = 0 \/ x % 2 = 1 THEN 0 ELSE 1 + TwoAdic(x \div 2, limit - 1)

LeadingZeros(digest) ==
    IF digest[3] \in RENEWABLE_ENERGY_SOURCES
    THEN TwoAdic(digest[2] + EnergySalt[digest[3]] + Len(digest[1]), MaxZeros)
    ELSE TwoAdic(digest[2] + Len(digest[1]), MaxZeros)

\* block_hash.startswith("0" * d)
StartsWithZeros(digest, d) == LeadingZeros(digest) >= d

\* GreenProofOfWork.mine, lines 15-23: the first nonce whose digest has the
\* target prefix
RECURSIVE SearchNonce(_, _, _, _)
SearchNonce(block_data, nonce, energy_source, d) ==
    IF StartsWithZeros(PowHash(block_data, nonce, energy_source), d)
    THEN nonce
    ELSE SearchNonce(block_data, nonce + 1, energy_source, d)

\* GreenProofOfWork.verify, called with Transaction objects
verify(d, transactions, nonce, block_hash, energy_source) ==
    LET block_data == DumpTransactions(transactions)
    IN /\ PowHash(block_data, nonce, energy_source) = block_hash
       /\ StartsWithZeros(block_hash, d)
       /\ energy_source \in RENEWABLE_ENERGY_SOURCES

RECURSIVE SumSeq(_)
SumSeq(q) == IF Len(q) = 0 THEN 0 ELSE Head(q) + SumSeq(Tail(q))

adjust_difficulty_keeps_window(d, times) ==
    IF Len(times) >= ADJUSTMENT_INTERVAL
    THEN [difficulty |->
              IF SumSeq(times) < TARGET_BLOCK_TIME * Len(times) THEN d + 1
              ELSE IF SumSeq(times) > TARGET_BLOCK_TIME * Len(times)
                   THEN Max(1, d - 1)
                   ELSE d,
          block_times |-> times]
    ELSE [difficulty |-> d, block_times |-> times]

\* GreenProofOfWork.adjust_difficulty: the difficulty and the window it
\* leaves.  sum / len < target is compared as sum < target * len.
adjust_difficulty(d, times) ==
    IF Len(times) >= ADJUSTMENT_INTERVAL
    THEN [difficulty |->
              IF SumSeq(times) < TARGET_BLOCK_TIME * Len(times) THEN d + 1
              ELSE IF SumSeq(times) > TARGET_BLOCK_TIME * Len(times)
                   THEN Max(1, d - 1)
                   ELSE d,
          block_times |-> <<>>]
    ELSE [difficulty |-> d, block_times |-> times]

award_carbon_credits_flat(credits, miner_address, energy_source) ==
    SetItem(credits, miner_address,
            get_qfc_balance(credits, miner_address) + BASE_CREDIT * 10)

\* GreenProofOfWork.award_carbon_credits: credits in hundredths
award_carbon_credits(credits, miner_address, energy_source) ==
    SetItem(credits, miner_address,
            get_qfc_balance(credits, miner_address)
                + BASE_CREDIT * MULTIPLIER[energy_source])

DurationKind(elapsed) ==
    IF elapsed < TARGET_BLOCK_TIME THEN "fast"
    ELSE IF elapsed > TARGET_BLOCK_TIME THEN "slow" ELSE "even"

Mine_unadjusted(transactions, miner_address, energy_source, elapsed) ==
    /\ mines < MaxMines
    /\ difficulty <= MaxZeros
    /\ LET block_data == DumpTransactions(transactions)
           nonce == SearchNonce(block_data, 0, energy_source, difficulty)
       IN /\ difficulty' = difficulty
          /\ block_times' = Append(block_times, elapsed)
          /\ carbon_credits' =
                 award_carbon_credits(carbon_credits, miner_address, energy_source)
          /\ mined' = <<[transactions |-> transactions, nonce |-> nonce,
                         hash |-> PowHash(block_data, nonce, energy_source),
                         energy_source |-> energy_source,
                         miner |-> miner_address, target |-> difficulty]>>
    /\ mines' = mines + 1
    /\ seen' = seen \cup {DurationKind(elapsed)}
    /\ call' = "mine"
    /\ ret' = "found"
    /\ UNCHANGED <<balances, shards, nfts, clock, buys, appends, sales, pc, loc,
                   initial_difficulty, auxVars>>

\* GreenProofOfWork.mine, called with the dump of `transactions` as
\* block_data.  random.choice picks energy_source; elapsed is the wall-clock
\* time the search took.
Mine(transactions, miner_address, energy_source, elapsed) ==
    /\ mines < MaxMines
    /\ difficulty <= MaxZeros
    /\ LET block_data == DumpTransactions(transactions)
           nonce == SearchNonce(block_data, 0, energy_source, difficulty)
           adjusted == adjust_difficulty(difficulty, Append(block_times, elapsed))
       IN /\ difficulty' = adjusted.difficulty
          /\ block_times' = adjusted.block_times
          /\ carbon_credits' =
                 award_carbon_credits(carbon_credits, miner_address, energy_source)
          /\ mined' = <<[transactions |-> transactions, nonce |-> nonce,
                         hash |-> PowHash(block_data, nonce, energy_source),
                         energy_source |-> energy_source,
                         miner |-> miner_address, target |-> difficulty]>>
    /\ mines' = mines + 1
    /\ seen' = seen \cup {DurationKind(elapsed)}
    /\ call' = "mine"
    /\ ret' = "found"
    /\ UNCHANGED <<balances, shards, nfts, clock, buys, appends, sales, pc, loc,
                   initial_difficulty, auxVars>>

\* Blockchain.mine_block, lines 46-48: the candidate after the engine's
\* nonce, digest and energy source have been stored in it.  The digest is
\* GreenProofOfWork.calculate_hash of (block_data, nonce, energy_source).
AssignMined(block, m) ==
    [index |-> block.index, transactions |-> block.transactions,
     previous_hash |-> block.previous_hash, nonce |-> m.nonce,
     timestamp |-> block.timestamp, hash |-> m.hash,
     energy_source |-> m.energy_source]

\* Blockchain.mine_block, lines 46-50, for a candidate create_block returned
\* and the triple the engine returned last.  Inside mine_block these lines
\* come after line 44, which raises (see MineBlock).
AppendMined(k) ==
    /\ appends < MaxAppends
    /\ k \in 1 .. Len(built)
    /\ mined # <<>>
    /\ shards' = ShardAddBlock(shards, built[k].shard,
                               AssignMined(built[k].block, mined[1]))
    /\ appends' = appends + 1
    /\ call' = "add_block"
    /\ ret' = "none"
    /\ UNCHANGED <<balances, nfts, clock, buys, sales, pc, loc, powVars,
                   auxVars>>

\* GreenProofOfWork.verify, called on the engine as it is now
PowVerify(transactions, nonce, block_hash, energy_source) ==
    /\ probe' = [op |-> "verify", transactions |-> transactions,
                 nonce |-> nonce, hash |-> block_hash,
                 energy_source |-> energy_source,
                 result |-> verify(difficulty, transactions, nonce, block_hash,
                                   energy_source)]
    /\ call' = "verify"
    /\ ret' = "returned"
    /\ UNCHANGED <<balances, shards, nfts, clock, buys, appends, sales, pc, loc,
                   powVars, built, cpc, cblock, market_transactions, order_book>>

----------------------------------------------------------------------------
(* CarbonCreditMarket *)

\* buy_credits and sell_credits, lines 7-12 and 15-20, share their effect on
\* the engine's ledger: the guard reads get(address, 0), the decrement reads
\* carbon_credits[address] and raises KeyError if the address has no entry.
MarketGuard(address, amount) ==
    get_qfc_balance(carbon_credits, address) >= amount

MarketTrade(type, address, amount) ==
    /\ Len(market_transactions) < MaxTrades
    /\ call' = type
    /\ IF MarketGuard(address, amount)
       THEN IF address \in DOMAIN carbon_credits
            THEN /\ carbon_credits' =
                        SetItem(carbon_credits, address,
                                carbon_credits[address] - amount)
                 /\ market_transactions' =
                        Append(market_transactions,
                               [type |-> type, address |-> address,
                                amount |-> amount,
                                value |-> amount * CREDIT_PRICE])
                 /\ ret' = "true"
            ELSE /\ ret' = "raised"
                 /\ UNCHANGED <<carbon_credits, market_transactions>>
       ELSE /\ ret' = "false"
            /\ UNCHANGED <<carbon_credits, market_transactions>>
    /\ UNCHANGED <<balances, shards, nfts, clock, buys, appends, sales, pc, loc,
                   initial_difficulty, difficulty, block_times, mined, mines,
                   seen, probe, built, cpc, cblock, order_book>>

BuyCredits(buyer, amount) == MarketTrade("buy_credits", buyer, amount)

SellCredits(seller, amount) == MarketTrade("sell_credits", seller, amount)

----------------------------------------------------------------------------
(* DecentralizedExchange *)

Min(a, b) == IF a <= b THEN a ELSE b

\* list.sort(key=price, reverse=True): a stable sort, descending by price
RECURSIVE InsertDescending(_, _)
InsertDescending(sorted, order) ==
    IF Len(sorted) = 0 THEN <<order>>
    ELSE IF Head(sorted).price >= order.price
         THEN <<Head(sorted)>> \o InsertDescending(Tail(sorted), order)
         ELSE <<order>> \o sorted

RECURSIVE SortDescending(_)
SortDescending(q) ==
    IF Len(q) = 0 THEN <<>>
    ELSE InsertDescending(SortDescending(SubSeq(q, 1, Len(q) - 1)), q[Len(q)])

\* list.sort(key=price): a stable sort, ascending by price
RECURSIVE InsertAscending(_, _)
InsertAscending(sorted, order) ==
    IF Len(sorted) = 0 THEN <<order>>
    ELSE IF Head(sorted).price <= order.price
         THEN <<Head(sorted)>> \o InsertAscending(Tail(sorted), order)
         ELSE <<order>> \o sorted

RECURSIVE SortAscending(_)
SortAscending(q) ==
    IF Len(q) = 0 THEN <<>>
    ELSE InsertAscending(SortAscending(SubSeq(q, 1, Len(q) - 1)), q[Len(q)])

EmptyBook == [buy |-> <<>>, sell |-> <<>>]

place_order_unsorted(book, order, is_buy) ==
    IF is_buy
    THEN [book EXCEPT !.buy = Append(book.buy, order)]
    ELSE [book EXCEPT !.sell = Append(book.sell, order)]

\* DecentralizedExchange.place_order, lines 13-21: the token's book after
\* the order was appended and its side sorted
place_order(book, order, is_buy) ==
    IF is_buy
    THEN [book EXCEPT !.buy = SortDescending(Append(book.buy, order))]
    ELSE [book EXCEPT !.sell = SortAscending(Append(book.sell, order))]

\* DecentralizedExchange.match_orders, lines 31-48: the while loop
RECURSIVE match_orders(_)
match_orders(book) ==
    IF /\ Len(book.buy) > 0
       /\ Len(book.sell) > 0
       /\ book.buy[1].price >= book.sell[1].price
    THEN LET buy_order == book.buy[1]
             sell_order == book.sell[1]
             trade_amount == Min(buy_order.amount, sell_order.amount)
             bought == [buy_order EXCEPT !.amount = @ - trade_amount]
             sold == [sell_order EXCEPT !.amount = @ - trade_amount]
         IN match_orders(
                [buy |-> IF bought.amount = 0 THEN Tail(book.buy)
                         ELSE <<bought>> \o Tail(book.buy),
                 sell |-> IF sold.amount = 0 THEN Tail(book.sell)
                          ELSE <<sold>> \o Tail(book.sell)])
    ELSE book

\* DecentralizedExchange.place_order
PlaceOrder(user, token_id, amount, price, is_buy) ==
    /\ LET book == IF token_id \in DOMAIN order_book
                   THEN order_book[token_id] ELSE EmptyBook
       IN /\ Len(book.buy) + Len(book.sell) < MaxOrders
          /\ order_book' =
                 SetItem(order_book, token_id,
                         place_order(book,
                                     [user |-> user, amount |-> amount,
                                      price |-> price],
                                     is_buy))
    /\ call' = "place_order"
    /\ ret' = "none"
    /\ UNCHANGED <<balances, shards, nfts, clock, buys, appends, sales, pc, loc,
                   powVars, probe, built, cpc, cblock, market_transactions>>

\* DecentralizedExchange.match_orders (execute_trade only prints)
MatchOrders(token_id) ==
    /\ order_book' =
           IF token_id \in DOMAIN order_book
           THEN SetItem(order_book, token_id, match_orders(order_book[token_id]))
           ELSE order_book
    /\ call' = "match_orders"
    /\ ret' = "none"
    /\ UNCHANGED <<balances, shards, nfts, clock, buys, appends, sales, pc, loc,
                   powVars, probe, built, cpc, cblock, market_transactions>>

\* Shard.add_block, called with a block the caller constructed with
\* Block(index, [], previous_hash)
BOGUS_HASH == <<"f">>

AddBlock(shard_id, index, previous_hash) ==
    /\ appends < MaxAppends
    /\ shards' = ShardAddBlock(shards, shard_id,
                               Block(index, <<>>, previous_hash, clock))
    /\ appends' = appends + 1
    /\ call' = "add_block"
    /\ ret' = "none"
    /\ UNCHANGED <<balances, nfts, clock, buys, sales, pc, loc,
                 powVars, auxVars>>

----------------------------------------------------------------------------
(* NFT marketplace: the operations that lead to and include buy_nft *)

Tokens == {"t1"}
SalePrices == {1000}
RoyaltyPercentages == {10, 300}

\* NFTMarketplace.mint_nft
MintNft(token_id, owner) ==
    /\ call' = "mint_nft"
    /\ IF token_id \notin DOMAIN nfts
       THEN /\ nfts' = [t \in (DOMAIN nfts) \cup {token_id} |->
                           IF t = token_id
                           THEN [owner |-> owner, listed |-> FALSE,
                                 sale_price |-> 0, royalty_percentage |-> 0,
                                 royalty_recipient |-> owner]
                           ELSE nfts[t]]
            /\ ret' = "true"
       ELSE /\ UNCHANGED nfts
            /\ ret' = "false"
    /\ UNCHANGED <<balances, shards, clock, buys, appends, sales, pc, loc,
                 powVars, auxVars>>

\* NFTMarketplace.set_royalties
SetRoyalties(token_id, percentage, recipient) ==
    /\ call' = "set_royalties"
    /\ IF token_id \in DOMAIN nfts
       THEN /\ nfts' = [nfts EXCEPT ![token_id].royalty_percentage = percentage,
                                    ![token_id].royalty_recipient = recipient]
            /\ ret' = "true"
       ELSE /\ UNCHANGED nfts
            /\ ret' = "false"
    /\ UNCHANGED <<balances, shards, clock, buys, appends, sales, pc, loc,
                 powVars, auxVars>>

\* NFTMarketplace.list_nft_for_sale
ListNftForSale(token_id, price) ==
    /\ call' = "list_nft_for_sale"
    /\ IF token_id \in DOMAIN nfts /\ ~nfts[token_id].listed
       THEN /\ nfts' = [nfts EXCEPT ![token_id].listed = TRUE,
                                    ![token_id].sale_price = price]
            /\ ret' = "true"
       ELSE /\ UNCHANGED nfts
            /\ ret' = "false"
    /\ UNCHANGED <<balances, shards, clock, buys, appends, sales, pc, loc,
                 powVars, auxVars>>

\* NFTMarketplace.transfer_nft
transfer_nft(n, token_id, from_address, to_address) ==
    IF token_id \in DOMAIN n /\ n[token_id].owner = from_address
    THEN [n EXCEPT ![token_id].owner = to_address]
    ELSE n

\* NFTMarketplace.buy_nft.  balances[x] -= v and balances[x] += v raise
\* KeyError when x has no entry, leaving the writes made so far in place.
BuyNft(token_id, buyer, seller) ==
    /\ sales < MaxSales
    /\ call' = "buy_nft"
    /\ IF token_id \in DOMAIN nfts /\ nfts[token_id].listed
          /\ nfts[token_id].sale_price # 0
       THEN LET price == nfts[token_id].sale_price
            IN IF get_qfc_balance(balances, buyer) >= price
               THEN IF buyer \notin DOMAIN balances
                    THEN /\ ret' = "raised"
                         /\ UNCHANGED <<balances, nfts>>
                    ELSE LET b1 == SetItem(balances, buyer, balances[buyer] - price)
                         IN IF seller \notin DOMAIN b1
                            THEN /\ balances' = b1
                                 /\ ret' = "raised"
                                 /\ UNCHANGED nfts
                            ELSE LET b2 == SetItem(b1, seller, b1[seller] + price)
                                     n1 == transfer_nft(nfts, token_id, seller, buyer)
                                     royalty_percentage ==
                                         n1[token_id].royalty_percentage
                                     royalty_recipient ==
                                         n1[token_id].royalty_recipient
                                     royalty_amount ==
                                         (price * royalty_percentage) \div 100
                                     b3 == SetItem(b2, seller,
                                                   b2[seller] - royalty_amount)
                                     sold == [n1 EXCEPT ![token_id].listed = FALSE,
                                                        ![token_id].sale_price = 0]
                                 IN IF royalty_percentage > 0
                                    THEN IF royalty_recipient \notin DOMAIN b3
                                         THEN /\ balances' = b3
                                              /\ nfts' = n1
                                              /\ ret' = "raised"
                                         ELSE /\ balances' = SetItem(
                                                     b3, royalty_recipient,
                                                     b3[royalty_recipient]
                                                         + royalty_amount)
                                              /\ nfts' = sold
                                              /\ ret' = "true"
                                    ELSE /\ balances' = b2
                                         /\ nfts' = sold
                                         /\ ret' = "true"
               ELSE /\ ret' = "false"
                    /\ UNCHANGED <<balances, nfts>>
       ELSE /\ ret' = "false"
            /\ UNCHANGED <<balances, nfts>>
    /\ sales' = IF balances' # balances THEN sales + 1 ELSE sales
    /\ UNCHANGED <<shards, clock, buys, appends, pc, loc,
                 powVars, auxVars>>

----------------------------------------------------------------------------
(* Blockchain.add_transaction run by concurrent threads (the API serves    *)
(* requests on threads and the ledger takes no lock): one step per read    *)
(* or write of the shared asset table and shard queues.                    *)

Other(t) == CHOOSE u \in Threads : u # t

\* the caller builds the transaction and enters add_transaction
Begin(t, sender, recipient, amount) ==
    /\ pc[t] = "idle"
    /\ clock <= MaxClock
    /\ loc' = [loc EXCEPT
                  ![t].tx = Transaction(sender, recipient, amount, clock),
                  ![t].base = IF pc[Other(t)] = "idle" THEN balances
                              ELSE loc[Other(t)].base]
    /\ pc' = [pc EXCEPT ![t] = "verify"]
    /\ clock' = clock + 1
    /\ UNCHANGED <<balances, shards, nfts, buys, appends, sales, call, ret,
                 powVars, auxVars>>

\* line 25: verify_transaction reads the sender's balance
Verify(t) ==
    /\ pc[t] = "verify"
    /\ IF verify_transaction(balances, loc[t].tx)
       THEN /\ pc' = [pc EXCEPT ![t] = "enqueue"]
            /\ UNCHANGED loc
       ELSE /\ pc' = [pc EXCEPT ![t] = "done"]
            /\ loc' = [loc EXCEPT ![t].result = "false"]
    /\ UNCHANGED <<balances, shards, nfts, clock, buys, appends, sales, call, ret,
                 powVars, auxVars>>

\* lines 26-27: route by the sender and append to the shard's queue
Enqueue(t) ==
    /\ pc[t] = "enqueue"
    /\ IF RoutingRaises(loc[t].tx.sender)
       THEN /\ pc' = [pc EXCEPT ![t] = "done"]
            /\ loc' = [loc EXCEPT ![t].result = "raised"]
            /\ UNCHANGED shards
       ELSE /\ shards' = ShardAddTransaction(
                             shards, get_shard_for_address(loc[t].tx.sender),
                             loc[t].tx)
            /\ pc' = [pc EXCEPT ![t] = "read_sender"]
            /\ UNCHANGED loc
    /\ UNCHANGED <<balances, nfts, clock, buys, appends, sales, call, ret,
                 powVars, auxVars>>

\* line 59
ReadSender(t) ==
    /\ pc[t] = "read_sender"
    /\ loc' = [loc EXCEPT
                  ![t].sender_balance = get_qfc_balance(balances, loc[t].tx.sender)]
    /\ pc' = [pc EXCEPT ![t] = "read_recipient"]
    /\ UNCHANGED <<balances, shards, nfts, clock, buys, appends, sales, call, ret,
                 powVars, auxVars>>

\* line 60
ReadRecipient(t) ==
    /\ pc[t] = "read_recipient"
    /\ loc' = [loc EXCEPT
                  ![t].recipient_balance =
                      get_qfc_balance(balances, loc[t].tx.recipient)]
    /\ pc' = [pc EXCEPT ![t] = "write_sender"]
    /\ UNCHANGED <<balances, shards, nfts, clock, buys, appends, sales, call, ret,
                 powVars, auxVars>>

\* lines 63-64 (and 67-68, after which add_transaction still returns True)
WriteSender(t) ==
    /\ pc[t] = "write_sender"
    /\ IF loc[t].sender_balance >= calculate_total_cost(loc[t].tx)
       THEN /\ balances' = SetItem(balances, loc[t].tx.sender,
                                   loc[t].sender_balance
                                       - calculate_total_cost(loc[t].tx))
            /\ pc' = [pc EXCEPT ![t] = "write_recipient"]
            /\ UNCHANGED loc
       ELSE /\ pc' = [pc EXCEPT ![t] = "done"]
            /\ loc' = [loc EXCEPT ![t].result = "true"]
            /\ UNCHANGED balances
    /\ UNCHANGED <<shards, nfts, clock, buys, appends, sales, call, ret,
                 powVars, auxVars>>

\* line 65, then line 29
WriteRecipient(t) ==
    /\ pc[t] = "write_recipient"
    /\ balances' = SetItem(balances, loc[t].tx.recipient,
                           loc[t].recipient_balance + loc[t].tx.amount)
    /\ pc' = [pc EXCEPT ![t] = "done"]
    /\ loc' = [loc EXCEPT ![t].result = "true"]
    /\ UNCHANGED <<shards, nfts, clock, buys, appends, sales, call, ret,
                 powVars, auxVars>>

\* on-ramp purchases made before the threads start
Fund(user, qfc_amount) ==
    /\ \A t \in Threads : pc[t] = "idle"
    /\ BuyQfc(user, qfc_amount, TRUE)

----------------------------------------------------------------------------
(* Specifications *)

Next ==
    \/ \E user \in Addresses, q \in BuyAmounts, paid \in BOOLEAN :
           BuyQfc(user, q, paid)
    \/ \E s \in Addresses, r \in Addresses, a \in TxAmounts, k \in SigKinds :
           AddTransaction(s, r, a, k)
    \/ \E s \in Addresses, r \in Addresses :
           InitiateCrossShardTransaction(s, r, 1000)
    \/ \E miner \in Addresses : MineBlock(miner)
    \/ \E miner \in Addresses : RewardMiner(miner)

Spec == Init /\ [][Next]_vars

\* Direct appends to a shard's chain, next to submissions and mining
ChainNext ==
    \/ BuyQfc(A0, 1010, TRUE)
    \/ \E r \in {A0, A1} : AddTransaction(A0, r, 1000, "unsigned")
    \/ \E miner \in {A0, A1} : MineBlock(miner)
    \/ \E i \in ShardIds :
         \E index \in {Len(shards[i].chain), Len(shards[i].chain) + 1},
            h \in {get_latest_block(shards[i]).hash, BOGUS_HASH} :
               AddBlock(i, index, h)

ChainSpec == Init /\ [][ChainNext]_vars

\* ChainSpec with mining requests that keep being issued for every shard
LiveSpec ==
    /\ Init
    /\ [][ChainNext]_vars
    /\ \A miner \in {A0, A1} : WF_vars(MineBlock(miner))

\* The marketplace and the ledger on the shared asset table
Traders == {A0, A1}

NftNext ==
    \/ \E user \in Traders : BuyQfc(user, 1010, TRUE)
    \/ AddTransaction(A0, A1, 1000, "unsigned")
    \/ \E t \in Tokens, owner \in Traders : MintNft(t, owner)
    \/ \E t \in Tokens, p \in RoyaltyPercentages, r \in Traders :
           SetRoyalties(t, p, r)
    \/ \E t \in Tokens, price \in SalePrices : ListNftForSale(t, price)
    \/ \E t \in Tokens, buyer \in Traders, seller \in Traders :
           BuyNft(t, buyer, seller)

NftSpec == Init /\ [][NftNext]_vars

ConcNext ==
    \/ \E user \in Traders : Fund(user, 1010)
    \/ \E t \in Threads :
         \/ \E s \in Traders : \E r \in Traders \ {s} : Begin(t, s, r, 1000)
         \/ Verify(t)
         \/ Enqueue(t)
         \/ ReadSender(t)
         \/ ReadRecipient(t)
         \/ WriteSender(t)
         \/ WriteRecipient(t)

ConcSpec == Init /\ [][ConcNext]_vars

\* The consensus engine on its own, built with one of several difficulties
InitialDifficulties == {2, INITIAL_DIFFICULTY}
Elapsed == {30, 60, 90}
T1 == Transaction(A0, A1, 1000, 1)
T2 == Transaction(A1, A0, 1000, 2)

PowStart ==
    /\ LedgerInit
    /\ initial_difficulty \in InitialDifficulties
    /\ PowInit
    /\ AuxInit

PowNext ==
    \E txs \in {<<T1>>, <<T1, T2>>}, e \in {"solar", "wind"},
       elapsed \in Elapsed :
        Mine(txs, A0, e, elapsed)

PowSpec == PowStart /\ [][PowNext]_vars

\* The consensus engine with the carbon-credit market and the ledger
\* operations next to it.  Credit amounts are in hundredths.
CreditAmounts == {-100, 120}

CreditNext ==
    \/ \E miner \in {A0, A1}, e \in RENEWABLE_ENERGY_SOURCES :
           /\ mines < MaxCreditMines
           /\ Mine(<<T1>>, miner, e, TARGET_BLOCK_TIME)
    \/ \E amount \in CreditAmounts : BuyCredits(A0, amount)
    \/ \E amount \in CreditAmounts : SellCredits(A0, amount)
    \/ BuyQfc(A0, 1010, TRUE)
    \/ AddTransaction(A0, A1, 1000, "unsigned")
    \/ MineBlock(A0)

CreditSpec == Init /\ [][CreditNext]_vars

\* One caller using the shards directly
ShardNext ==
    \/ \E i \in ShardIds, sender \in Keys, recipient \in Keys,
          amount \in {100, 1000} :
           ShardEnqueue(i, sender, recipient, amount)
    \/ \E i \in ShardIds : CreateBlock(i)
    \/ AppendCandidate

ShardSpec == Init /\ [][ShardNext]_vars

\* Several threads using one shard
CbNext ==
    \/ \E sender \in Keys, amount \in {100, 1000} :
           ShardEnqueue(SharedShard, sender, A1, amount)
    \/ \E t \in Threads : CbCheck(t)
    \/ \E t \in Threads : CbBuild(t)
    \/ \E t \in Threads : CbClear(t)

CbSpec == Init /\ [][CbNext]_vars

\* Several threads mining on one shard: each builds a candidate with
\* create_block, and the candidates are handed to add_block
RaceNext ==
    \/ CbNext
    \/ \E k \in 1 .. MaxClock : AppendBuilt(k)

RaceSpec == Init /\ [][RaceNext]_vars

\* Candidates, the engine, and the appends of constructed and of mined blocks
MinedNext ==
    \/ \E i \in ShardIds, sender \in Keys :
           ShardEnqueue(i, sender, A1, 1000)
    \/ \E i \in ShardIds : CreateBlock(i)
    \/ \E e \in {"solar", "wind"} :
           /\ mines < MaxCreditMines
           /\ Mine(<<T1>>, A0, e, TARGET_BLOCK_TIME)
    \/ \E i \in ShardIds :
           AddBlock(i, Len(shards[i].chain), get_latest_block(shards[i]).hash)
    \/ \E k \in 1 .. MaxClock : AppendMined(k)

MinedSpec == Init /\ [][MinedNext]_vars

\* The engine mining, and verify called on the block that a mine finds for
\* <<T1>> at the engine's initial difficulty
FirstNonce(e) ==
    SearchNonce(DumpTransactions(<<T1>>), 0, e, initial_difficulty)

VerifyNext ==
    \/ \E elapsed \in {30, 90} : Mine(<<T1>>, A0, "solar", elapsed)
    \/ \E e \in {"solar", "wind"} :
           PowVerify(<<T1>>, FirstNonce(e),
                     PowHash(DumpTransactions(<<T1>>), FirstNonce(e), e), e)

VerifySpec == PowStart /\ [][VerifyNext]_vars

\* The exchange: orders with positive amounts
OrderAmounts == {2, 3}
OrderPrices == {10, 20}

DexNext ==
    \/ \E user \in Traders, t \in Tokens, amount \in OrderAmounts,
          price \in OrderPrices, is_buy \in BOOLEAN :
           PlaceOrder(user, t, amount, price, is_buy)
    \/ \E t \in Tokens : MatchOrders(t)

DexSpec == Init /\ [][DexNext]_vars

\* Calls of the pure functions, each on arguments drawn by the caller
RewardBlocks ==
    {h * REWARD_HALVING_INTERVAL + o :
        h \in 0 .. MaxHalvings, o \in {0, 1, REWARD_HALVING_INTERVAL - 1}}

ProbeReward(current_block) ==
    /\ probe' = [op |-> "reward", arg |-> current_block,
                 result |-> reward(current_block)]
    /\ UNCHANGED <<balances, shards, nfts, clock, buys, appends, sales, call,
                   ret, pc, loc, powVars, built, cpc, cblock,
                   market_transactions, order_book>>

SignedFields == {"sender", "recipient", "amount", "asset", "fee", "timestamp"}

\* A transaction after one of its fields was changed
Mutate(tx, field) ==
    CASE field = "sender" -> [tx EXCEPT !.sender = NETWORK]
      [] field = "recipient" -> [tx EXCEPT !.recipient = NETWORK]
      [] field = "amount" -> [tx EXCEPT !.amount = tx.amount + 100]
      [] field = "asset" -> [tx EXCEPT !.asset = "ETH"]
      [] field = "fee" -> [tx EXCEPT !.fee = tx.fee + 1]
      [] field = "timestamp" -> [tx EXCEPT !.timestamp = tx.timestamp + 1]
      [] OTHER -> tx

\* sign_transaction(private key), an optional change of one field, then
\* verify_signature(public key)
ProbeSign(tx, key, public_key, field) ==
    /\ probe' = [op |-> "sign", tx |-> tx, key |-> key,
                 public_key |-> public_key, field |-> field,
                 signed |-> sign_transaction(tx, key),
                 result |-> verify_signature(
                                Mutate(sign_transaction(tx, key), field),
                                public_key)]
    /\ UNCHANGED <<balances, shards, nfts, clock, buys, appends, sales, call,
                   ret, pc, loc, powVars, built, cpc, cblock,
                   market_transactions, order_book>>

SignatureContents == {"empty", "malformed", "wrong key", "mismatching digest", "signed"}

WithSignature(tx, content) ==
    CASE content = "empty" -> tx
      [] content = "malformed" -> [tx EXCEPT !.signature = MALFORMED_SIGNATURE]
      [] content = "wrong key" -> sign_transaction(tx, OtherKey(tx.sender))
      [] content = "mismatching digest" ->
             Mutate(sign_transaction(tx, tx.sender), "amount")
      [] content = "signed" -> sign_transaction(tx, tx.sender)

\* verify_signature on a transaction carrying the given signature content
ProbeVerifySignature(tx, content) ==
    /\ probe' = [op |-> "verify_signature", tx |-> tx, content |-> content,
                 result |-> verify_signature_outcome(WithSignature(tx, content),
                                                     tx.sender)]
    /\ UNCHANGED <<balances, shards, nfts, clock, buys, appends, sales, call,
                   ret, pc, loc, powVars, built, cpc, cblock,
                   market_transactions, order_book>>

\* Addresses handed to the router: two that share their first character,
\* the reward sender, and the empty string
RoutedAddresses == {A0, A1, <<"0", "c">>, <<"f", "f">>, NETWORK, <<>>}

\* get_shard_for_address(address); result is -1 where the call raised
ProbeRoute(address) ==
    /\ probe' = [op |-> "route", address |-> address,
                 raised |-> RoutingRaises(address),
                 result |-> IF RoutingRaises(address) THEN -1
                            ELSE get_shard_for_address(address)]
    /\ UNCHANGED <<balances, shards, nfts, clock, buys, appends, sales, call,
                   ret, pc, loc, powVars, built, cpc, cblock,
                   market_transactions, order_book>>

ProbedTransactions ==
    {Transaction(s, r, a, 1) : s \in Keys, r \in Keys, a \in {100, 1000}}

FnNext ==
    \/ \E n \in RewardBlocks : ProbeReward(n)
    \/ \E tx \in ProbedTransactions, key \in Keys, public_key \in Keys,
          field \in SignedFields \cup {"none"} :
           ProbeSign(tx, key, public_key, field)
    \/ \E tx \in ProbedTransactions, content \in SignatureContents :
           ProbeVerifySignature(tx, content)
    \/ \E address \in RoutedAddresses : ProbeRoute(address)

FnSpec == Init /\ [][FnNext]_vars

----------------------------------------------------------------------------
(* Properties *)

Routable(address) == ~RoutingRaises(address)

RECURSIVE SumOver(_, _)
SumOver(bal, addresses) ==
    IF addresses = {} THEN 0
    ELSE LET a == CHOOSE x \in addresses : TRUE
         IN bal[a] + SumOver(bal, addresses \ {a})

TotalBalance(bal) == SumOver(bal, DOMAIN bal)

\* C1: a cross-shard transaction handled by the coordinator leaves both
\* balances as they were when it aborts, and when it commits the sender's
\* balance is lower by exactly total_cost() and the recipient's higher by
\* exactly amount, in the same step.
C1_CrossShardAtomic ==
    [][\A s \in Addresses, r \in Addresses :
          LET tx == Transaction(s, r, 1000, clock)
          IN (/\ InitiateCrossShardTransaction(s, r, 1000)
              /\ Routable(s) /\ Routable(r)
              /\ get_shard_for_address(s) # get_shard_for_address(r))
             => /\ ret' = "false" => balances' = balances
                /\ ret' = "true" =>
                     /\ get_qfc_balance(balances', s)
                          = get_qfc_balance(balances, s) - calculate_total_cost(tx)
                     /\ get_qfc_balance(balances', r)
                          = get_qfc_balance(balances, r) + tx.amount]_vars

\* C2: in every shard, chain[0] has index 0 and the sentinel previous_hash,
\* and every later block has its position as index and the stored hash of
\* its predecessor as previous_hash.
C2_ChainLinked ==
    \A i \in ShardIds :
        LET chain == shards[i].chain
        IN /\ chain[1].index = 0
           /\ chain[1].previous_hash = GENESIS_PREVIOUS_HASH
           /\ \A k \in 2 .. Len(chain) :
                 /\ chain[k].index = k - 1
                 /\ chain[k].previous_hash = chain[k - 1].hash

\* C3: no address has a negative QFC balance.
C3_NonNegativeBalances ==
    \A a \in DOMAIN balances : balances[a] >= 0

\* C4: the sum of all QFC balances is at most the total supply.
C4_SupplyCap ==
    TotalBalance(balances) <= TOTAL_SUPPLY

SerialOutcome(first, second) ==
    LET base == loc[first].base
        middle == add_transaction_balances(base, loc[first].tx)
    IN /\ loc[first].result = add_transaction_result(base, loc[first].tx)
       /\ loc[second].result = add_transaction_result(middle, loc[second].tx)
       /\ balances = add_transaction_balances(middle, loc[second].tx)

\* C5: when two add_transaction calls run concurrently, the balances they
\* leave and the answers they give are those of running the two calls one
\* after the other in some order (no lost update, and a sender who can pay
\* only one of the two has only one accepted).
C5_Serializable ==
    (\A t \in Threads : pc[t] = "done")
        => (SerialOutcome(1, 2) \/ SerialOutcome(2, 1))

\* an address the ledger cannot route: empty, or no hexadecimal first character
Malformed(address) == RoutingRaises(address)

FailsValidation(bal, tx) ==
    \/ tx.amount <= 0
    \/ get_qfc_balance(bal, tx.sender) < calculate_total_cost(tx)
    \/ Malformed(tx.sender)
    \/ Malformed(tx.recipient)

\* C6: a submission that fails validation (amount <= 0, sender balance
\* below total_cost(), or a malformed address) is answered with a rejection
\* and leaves balances, pending queues and chains as they were.
C6_RejectedLeavesState ==
    [][\A s \in Addresses, r \in Addresses, a \in TxAmounts, k \in SigKinds :
          (/\ AddTransaction(s, r, a, k)
           /\ FailsValidation(balances, Signed(Transaction(s, r, a, clock), k)))
          => (ret' = "false" /\ UNCHANGED <<balances, shards>>)]_vars

\* C7: add_transaction answers accepted only for a transaction with
\* amount > 0, a sender balance of at least total_cost(), and, if it carries
\* a signature, a signature that verifies under the sender's key.
C7_AcceptedIsValid ==
    [][\A s \in Addresses, r \in Addresses, a \in TxAmounts, k \in SigKinds :
          LET tx == Signed(Transaction(s, r, a, clock), k)
          IN (AddTransaction(s, r, a, k) /\ ret' = "true")
             => /\ tx.amount > 0
                /\ get_qfc_balance(balances, tx.sender)
                     >= calculate_total_cost(tx)
                /\ tx.signature # NoSignature => verify_signature(tx, tx.sender)
      ]_vars

\* C8: appending a block whose previous_hash is not the tail's hash, or
\* whose index is not the chain length, fails and leaves the chain as it
\* was; a successful append adds exactly that block at the tail and changes
\* neither the pending queue nor an earlier block.
C8_AppendChecksLinkage ==
    [][\A i \in ShardIds :
         \A index \in {Len(shards[i].chain), Len(shards[i].chain) + 1},
            h \in {get_latest_block(shards[i]).hash, BOGUS_HASH} :
              AddBlock(i, index, h)
              => IF h # get_latest_block(shards[i]).hash
                    \/ index # Len(shards[i].chain)
                 THEN ret' = "raised" /\ shards' = shards
                 ELSE /\ shards'[i].chain
                           = Append(shards[i].chain,
                                    Block(index, <<>>, h, clock))
                      /\ shards'[i].pending_transactions
                           = shards[i].pending_transactions]_vars

\* C9: mine_block returns none exactly when the pending queue of the
\* miner's shard is empty, and then changes nothing; otherwise it returns a
\* block that is the new tail of that shard's chain and holds the
\* transactions that were pending.
C9_MineBlockResult ==
    [][\A miner \in Addresses :
          (MineBlock(miner) /\ Routable(miner))
          => LET i == get_shard_for_address(miner)
                 pending == shards[i].pending_transactions
             IN IF Len(pending) = 0
                THEN ret' = "none" /\ UNCHANGED <<balances, shards, nfts>>
                ELSE /\ ret' = "block"
                     /\ Len(shards'[i].chain) = Len(shards[i].chain) + 1
                     /\ get_latest_block(shards'[i]).transactions
                          = [k \in 1 .. Len(pending) |-> to_dict(pending[k])]
      ]_vars

Queued(i, tx) ==
    \E k \in 1 .. Len(shards[i].pending_transactions) :
        shards[i].pending_transactions[k] = tx

InChain(i, tx) ==
    \E b \in 1 .. Len(shards[i].chain) :
        \E k \in 1 .. Len(shards[i].chain[b].transactions) :
            shards[i].chain[b].transactions[k] = to_dict(tx)

Submitted ==
    {Transaction(A0, r, 1000, now) : r \in {A0, A1}, now \in 1 .. (MaxClock + 1)}

\* C10: every transaction accepted by add_transaction is eventually in a
\* block of the chain of the shard it was queued on, when mining requests
\* keep being issued.
C10_AcceptedEventuallyMined ==
    \A i \in ShardIds : \A tx \in Submitted : Queued(i, tx) ~> InChain(i, tx)

\* C11: on each successful mine a reward transaction from the network
\* address to the miner, of the current block reward, is left pending on a
\* shard.
RewardPending(sh, miner) ==
    \E i \in ShardIds :
        \E k \in 1 .. Len(sh[i].pending_transactions) :
            LET tx == sh[i].pending_transactions[k]
            IN /\ tx.sender = NETWORK
               /\ tx.recipient = miner
               /\ tx.amount = reward(Len(sh[0].chain))

C11_RewardEnqueued ==
    [][\A miner \in Addresses :
          (\/ /\ MineBlock(miner)
              /\ Routable(miner)
              /\ Len(shards[get_shard_for_address(miner)].pending_transactions) > 0
           \/ RewardMiner(miner))
          => RewardPending(shards', miner)]_vars

\* C12: the block reward is max(1, floor(base_reward / 2^h)) with
\* h = blocks_mined div halving_interval: 50 at block 0, 25 at block 210000,
\* 12 at block 420000, never below 1, and never higher after more blocks.
RECURSIVE Halved(_, _)
Halved(x, times) == IF times = 0 THEN x ELSE Halved(x \div 2, times - 1)

RECURSIVE IntervalsIn(_)
IntervalsIn(blocks) ==
    IF blocks < REWARD_HALVING_INTERVAL THEN 0
    ELSE 1 + IntervalsIn(blocks - REWARD_HALVING_INTERVAL)

LastMined == mined[1]

OtherEnergy(e) == CHOOSE o \in RENEWABLE_ENERGY_SOURCES : o # e

\* C13: a block that mine has just returned passes verify, and verify is
\* false once its nonce, its energy source or one of its transactions is
\* changed.
C13_MinedBlockVerifies ==
    mined # <<>> =>
        /\ verify(difficulty, LastMined.transactions, LastMined.nonce,
                  LastMined.hash, LastMined.energy_source)
        /\ ~verify(difficulty, LastMined.transactions, LastMined.nonce + 1,
                   LastMined.hash, LastMined.energy_source)
        /\ ~verify(difficulty, LastMined.transactions, LastMined.nonce,
                   LastMined.hash, OtherEnergy(LastMined.energy_source))
        /\ ~verify(difficulty, <<T2>> \o Tail(LastMined.transactions),
                   LastMined.nonce, LastMined.hash, LastMined.energy_source)

\* C14: from difficulty d and an empty window, after k*N mines that were all
\* faster than the target the difficulty is d + k, after k*N mines that were
\* all slower it is max(1, d - k), and mines that took exactly the target
\* time leave it at d.
C14_Retargeting ==
    /\ seen = {"fast"} =>
           difficulty = initial_difficulty + mines \div ADJUSTMENT_INTERVAL
    /\ seen = {"slow"} =>
           difficulty = Max(1, initial_difficulty - mines \div ADJUSTMENT_INTERVAL)
    /\ seen = {"even"} => difficulty = initial_difficulty
    /\ seen = {} => difficulty = initial_difficulty

C14_Witness ==
    /\ mines = 2 * ADJUSTMENT_INTERVAL
    /\ seen = {"slow"}
    /\ initial_difficulty = 2
    /\ difficulty = 1

\* C15: a transaction signed with a key verifies under the matching key and
\* under no other key, a change of any signed field makes verification
\* fail, and the signed digest does not depend on the signature field.
C15_SignVerifyRoundTrip ==
    probe.op = "sign" =>
        /\ probe.result =
               (probe.public_key = probe.key /\ probe.field = "none")
        /\ calculate_hash(probe.signed) = calculate_hash(probe.tx)

\* C16: verify_signature answers true or false, and never raises, whatever
\* the signature field holds.
C16_VerificationNeverRaises ==
    probe.op = "verify_signature" => probe.result \in {"true", "false"}

\* C17: routing is total: every address is routed, without an error, to a
\* shard id in 0 .. num_shards - 1.
C17_RoutingTotal ==
    probe.op = "route" =>
        /\ ~probe.raised
        /\ probe.result \in 0 .. NumShards - 1

Credits(c, address) == get_qfc_balance(c, address)

\* C18: a successful mine raises the miner's credits by base_credit times
\* the multiplier of its energy source (geothermal > solar > wind >= hydro)
\* and no other address's; credits fall only in a carbon-market spend,
\* which never takes them below zero; no other operation changes them.
C18_CreditsMonotone ==
    [][/\ MULTIPLIER["geothermal"] > MULTIPLIER["solar"]
       /\ MULTIPLIER["solar"] > MULTIPLIER["wind"]
       /\ MULTIPLIER["wind"] >= MULTIPLIER["hydro"]
       /\ call' = "mine" =>
              /\ Credits(carbon_credits', mined'[1].miner) =
                     Credits(carbon_credits, mined'[1].miner)
                         + BASE_CREDIT * MULTIPLIER[mined'[1].energy_source]
              /\ \A a \in Addresses \ {mined'[1].miner} :
                     Credits(carbon_credits', a) = Credits(carbon_credits, a)
       /\ \A a \in Addresses :
              Credits(carbon_credits', a) < Credits(carbon_credits, a) =>
                  /\ call' \in {"buy_credits", "sell_credits"}
                  /\ ret' = "true"
                  /\ Credits(carbon_credits', a) >= 0
       /\ call' \notin {"mine", "buy_credits", "sell_credits"} =>
              carbon_credits' = carbon_credits
      ]_vars

C18_Witness ==
    /\ call = "sell_credits"
    /\ ret = "true"
    /\ Len(market_transactions) > 0
    /\ market_transactions[Len(market_transactions)].amount = 120
    /\ Credits(carbon_credits, A0) = 10
    /\ mines = 1

\* the timestamp field of a dumped transaction
DumpedTimestamp(d) == d[5]

\* C19: create_block on an empty queue returns no candidate and changes
\* nothing; on a non-empty queue it returns a block whose index is the chain
\* length, whose previous_hash is the tail's hash and whose transactions
\* are the queued ones in the order they were enqueued, and it leaves the
\* queue empty and the chain as it was.
C19_CreateBlock ==
    [][\A i \in ShardIds :
          CreateBlock(i) =>
              IF Len(shards[i].pending_transactions) = 0
              THEN /\ ret' = "none"
                   /\ shards' = shards
                   /\ built' = built
              ELSE LET candidate == built'[Len(built')].block
                       queue == shards[i].pending_transactions
                   IN /\ Len(built') = Len(built) + 1
                      /\ candidate.index = Len(shards[i].chain)
                      /\ candidate.previous_hash =
                             shards[i].chain[Len(shards[i].chain)].hash
                      /\ Len(candidate.transactions) = Len(queue)
                      /\ \A k \in 1 .. Len(queue) :
                             candidate.transactions[k] = to_dict(queue[k])
                      /\ \A k \in 1 .. Len(queue) - 1 :
                             DumpedTimestamp(candidate.transactions[k])
                                 < DumpedTimestamp(candidate.transactions[k + 1])
                      /\ shards'[i].pending_transactions = <<>>
                      /\ shards'[i].chain = shards[i].chain
                      /\ \A j \in ShardIds \ {i} : shards'[j] = shards[j]
      ]_vars

C19_Witness ==
    /\ call = "create_block"
    /\ ret = "block"
    /\ Len(built) = 1
    /\ Len(built[1].block.transactions) = 2
    /\ built[1].block.index = 1
    /\ shards[built[1].shard].pending_transactions = <<>>

\* the number of entries of q whose timestamp is ts
RECURSIVE CountDumped(_, _)
CountDumped(q, ts) ==
    IF Len(q) = 0 THEN 0
    ELSE (IF DumpedTimestamp(Head(q)) = ts THEN 1 ELSE 0) + CountDumped(Tail(q), ts)

RECURSIVE CountBuilt(_, _)
CountBuilt(candidates, ts) ==
    IF Len(candidates) = 0 THEN 0
    ELSE CountDumped(Head(candidates).block.transactions, ts)
             + CountBuilt(Tail(candidates), ts)

\* C20: whenever no create_block call is under way, every transaction
\* enqueued on the shard is in exactly one place: the pending queue, or
\* exactly one candidate.
C20_DrainAtomic ==
    (\A t \in Threads : cpc[t] = "idle") =>
        \A ts \in 1 .. clock - 1 :
            CountDumped(DumpTransactions(shards[SharedShard].pending_transactions), ts)
                + CountBuilt(built, ts) = 1

\* C21: appends to a shard are linearized against its tail: the chain never
\* holds two blocks with the same index or the same previous_hash (a
\* candidate built on a tail that has since been extended is not appended).
C21_AppendsLinearized ==
    \A i \in ShardIds :
        \A j \in 1 .. Len(shards[i].chain) :
            \A k \in (j + 1) .. Len(shards[i].chain) :
                /\ shards[i].chain[j].index # shards[i].chain[k].index
                /\ shards[i].chain[j].previous_hash # shards[i].chain[k].previous_hash

CrossShard(s, r) ==
    /\ Routable(s)
    /\ Routable(r)
    /\ get_shard_for_address(s) # get_shard_for_address(r)

\* C22: the prepare phase votes no when the sender's balance is below
\* total_cost(): the coordinator then reports false and enqueues nothing,
\* and a commit (a true result) is reached only with sufficient balance.
C22_PrepareChecksBalance ==
    [][\A s \in Addresses, r \in Addresses :
          LET tx == Transaction(s, r, 1000, clock)
          IN (InitiateCrossShardTransaction(s, r, 1000) /\ CrossShard(s, r))
             => /\ get_qfc_balance(balances, s) < calculate_total_cost(tx)
                    => (ret' = "false" /\ shards' = shards)
                /\ ret' = "true"
                    => get_qfc_balance(balances, s) >= calculate_total_cost(tx)
      ]_vars

\* the number of times tx occurs in the queue q
RECURSIVE CountTx(_, _)
CountTx(q, tx) ==
    IF Len(q) = 0 THEN 0
    ELSE (IF Head(q) = tx THEN 1 ELSE 0) + CountTx(Tail(q), tx)

EnqueuedOnce(i, tx) ==
    /\ shards'[i].pending_transactions = Append(shards[i].pending_transactions, tx)
    /\ CountTx(shards'[i].pending_transactions, tx) = 1
    /\ shards'[i].chain = shards[i].chain

\* C23: a committed cross-shard transaction is enqueued once on the sender's
\* shard and once on the recipient's shard, the sender's balance falls by
\* total_cost() and the recipient's rises by amount, and every other shard
\* and every other balance is unchanged.
C23_CommitFrame ==
    [][\A s \in Addresses, r \in Addresses :
          LET tx == Transaction(s, r, 1000, clock)
          IN (/\ CrossShard(s, r)
              /\ \/ InitiateCrossShardTransaction(s, r, 1000)
                 \/ AddTransaction(s, r, 1000, "unsigned")
              /\ ret' = "true")
             => /\ EnqueuedOnce(get_shard_for_address(s), tx)
                /\ EnqueuedOnce(get_shard_for_address(r), tx)
                /\ \A i \in ShardIds \ {get_shard_for_address(s),
                                        get_shard_for_address(r)} :
                       shards'[i] = shards[i]
                /\ get_qfc_balance(balances', s)
                       = get_qfc_balance(balances, s) - calculate_total_cost(tx)
                /\ get_qfc_balance(balances', r)
                       = get_qfc_balance(balances, r) + tx.amount
                /\ \A a \in Addresses \ {s, r} :
                       get_qfc_balance(balances', a) = get_qfc_balance(balances, a)
      ]_vars

\* C24: a transaction whose sender and recipient route to the same shard is
\* enqueued once on that shard, changes no other shard, and is reported to
\* the submitter as accepted (true).
C24_SameShardAccepted ==
    [][\A s \in Addresses, r \in Addresses :
          LET tx == Transaction(s, r, 1000, clock)
          IN (/\ InitiateCrossShardTransaction(s, r, 1000)
              /\ Routable(s) /\ Routable(r)
              /\ get_shard_for_address(s) = get_shard_for_address(r))
             => /\ EnqueuedOnce(get_shard_for_address(s), tx)
                /\ \A i \in ShardIds \ {get_shard_for_address(s)} :
                       shards'[i] = shards[i]
                /\ ret' = "true"
      ]_vars

\* C25: the hash stored in every block of every chain is the block's own
\* digest of its index, transactions, previous_hash, nonce and timestamp.
C25_StoredHashIsDigest ==
    \A i \in ShardIds :
        \A k \in 1 .. Len(shards[i].chain) :
            LET b == shards[i].chain[k]
            IN b.hash = BlockCalculateHash(b.index, b.transactions,
                                           b.previous_hash, b.nonce, b.timestamp)

\* C26: after every completed mine the difficulty is at least 1 and the
\* window holds fewer than adjustment_interval entries; a mine changes the
\* difficulty by at most 1, and only the mine that fills the window changes
\* it, and that mine empties the window.
C26_WindowAndStep ==
    [][mines' = mines + 1 =>
          /\ difficulty' >= 1
          /\ Len(block_times') < ADJUSTMENT_INTERVAL
          /\ difficulty' - difficulty \in {-1, 0, 1}
          /\ difficulty' # difficulty =>
                 Len(block_times) = ADJUSTMENT_INTERVAL - 1
          /\ IF Len(block_times) = ADJUSTMENT_INTERVAL - 1
             THEN block_times' = <<>>
             ELSE /\ Len(block_times') = Len(block_times) + 1
                  /\ \A k \in 1 .. Len(block_times) :
                         block_times'[k] = block_times[k]
      ]_vars

C26_Witness ==
    /\ mines = ADJUSTMENT_INTERVAL
    /\ block_times = <<>>
    /\ difficulty = initial_difficulty + 1
    /\ call = "mine"

\* C27: verify changes no engine state, and two calls with the same
\* transactions, nonce, hash and energy source give the same verdict
\* whatever was mined between them.
C27_VerifyPure ==
    [][/\ call' = "verify" =>
              /\ difficulty' = difficulty
              /\ block_times' = block_times
              /\ carbon_credits' = carbon_credits
       /\ (/\ probe.op = "verify"
           /\ probe'.op = "verify"
           /\ probe'.transactions = probe.transactions
           /\ probe'.nonce = probe.nonce
           /\ probe'.hash = probe.hash
           /\ probe'.energy_source = probe.energy_source)
          => probe'.result = probe.result
      ]_vars

\* C28: an accepted add_transaction lowers the sum of all QFC balances by
\* exactly the transaction's fee, also when sender and recipient are the
\* same address, which then keeps its old balance minus the fee.
C28_FeeLeavesLedger ==
    [][\A s \in Addresses, r \in Addresses, a \in TxAmounts, k \in SigKinds :
          LET tx == Signed(Transaction(s, r, a, clock), k)
          IN (AddTransaction(s, r, a, k) /\ ret' = "true")
             => /\ TotalBalance(balances') = TotalBalance(balances) - tx.fee
                /\ s = r => get_qfc_balance(balances', s)
                                = get_qfc_balance(balances, s) - tx.fee
      ]_vars

\* C29: buy_nft moves funds only together with ownership: when balances
\* change, the named seller owned the NFT before the call and the buyer owns
\* it after; when the named seller is not the owner, or the buyer's balance
\* is below the price, it returns false and changes no balance and no NFT.
C29_FundsFollowOwnership ==
    [][\A t \in Tokens, buyer \in Traders, seller \in Traders :
          (BuyNft(t, buyer, seller) /\ t \in DOMAIN nfts)
          => /\ balances' # balances =>
                    /\ nfts[t].owner = seller
                    /\ nfts'[t].owner = buyer
             /\ (\/ nfts[t].owner # seller
                 \/ get_qfc_balance(balances, buyer) < nfts[t].sale_price)
                => /\ ret' = "false"
                   /\ balances' = balances
                   /\ nfts' = nfts
      ]_vars

RECURSIVE TotalAmount(_)
TotalAmount(q) == IF Len(q) = 0 THEN 0 ELSE Head(q).amount + TotalAmount(Tail(q))

\* C30: match_orders ends with the token's book uncrossed: one side is
\* empty or every remaining buy price is below every remaining sell price;
\* no remaining order has amount 0; and the amount taken off the buy side
\* equals the amount taken off the sell side.
C30_BookUncrossed ==
    [][\A t \in Tokens :
          (MatchOrders(t) /\ t \in DOMAIN order_book)
          => LET before == order_book[t]
                 after == order_book'[t]
             IN /\ \A i \in 1 .. Len(after.buy) :
                       \A j \in 1 .. Len(after.sell) :
                           after.buy[i].price < after.sell[j].price
                /\ \A i \in 1 .. Len(after.buy) : after.buy[i].amount # 0
                /\ \A j \in 1 .. Len(after.sell) : after.sell[j].amount # 0
                /\ TotalAmount(before.buy) - TotalAmount(after.buy)
                       = TotalAmount(before.sell) - TotalAmount(after.sell)
      ]_vars

C30_Witness ==
    /\ call = "match_orders"
    /\ "t1" \in DOMAIN order_book
    /\ Len(order_book["t1"].buy) = 1
    /\ order_book["t1"].buy[1].amount = 1
    /\ Len(order_book["t1"].sell) = 1
    /\ order_book["t1"].sell[1].price > order_book["t1"].buy[1].price

====
